---------------------------- MODULE Spec2Model ----------------------------
(***************************************************************************)
(* A model of word_mcp_client_example.py: process_markdown_to_doc converts *)
(* a Markdown text into a sequence of remote tool calls (create_document,  *)
(* add_heading, add_paragraph) on an MCP session and returns one outcome    *)
(* string.  Strings are sequences of one-character strings, so that the    *)
(* string operations of the source (split, strip, lstrip, startswith,     *)
(* lower, endswith, concatenation) are computed as Python computes them.   *)
(***************************************************************************)
EXTENDS Naturals, Integers, Sequences, FiniteSets, TLC

VARIABLES
    markdown_text,  \* argument: the Markdown text
    filename,       \* argument, then the normalized name (line 30)
    title,          \* argument
    author,         \* argument
    style_file,     \* argument: no path (the default) or one path
    caller,         \* the caller: the arguments it passes, what it has seen
    pc,             \* the coroutine's position
    session,        \* lifecycle of the scoped ClientSession
    initResult,     \* how session.initialize() ended
    lines,          \* markdown_text.split("\n"), once computed (line 59)
    idx,            \* index of the line the for loop is at
    calls,          \* every call_tool request issued, with its response
    doc,            \* content the remote service has applied to the document
    returned,       \* the values of the return statements executed
    escaped         \* the exceptions that have left the coroutine uncaught

vars == <<style_file, caller, markdown_text, filename, title, author, pc, session, initResult,
          lines, idx, calls, doc, returned, escaped>>

None == "None"

-----------------------------------------------------------------------------
(* Bounds of the model *)

MaxLen == 5

Chars == {"#", " ", "a", "\n"}

Texts == UNION {[1..n -> Chars] : n \in 0..MaxLen}

Filenames == {<<"r">>, <<"r", ".", "D", "O", "C", "X">>}

Titles == {<<"T">>}

Authors == {<<"A">>}

Causes == {<<"x">>, <<"y">>}

ErrorCauses == {<<"e">>}

\* one-line texts, with both list markers and a tab
MaxLineLen == 5

LineChars == {"#", " ", "-", "*", "a", "\t"}

OneLineTexts == UNION {[1..n -> LineChars] : n \in 0..MaxLineLen}

\* filenames, with the letters of the extension in both cases of 'd'
MaxNameLen == 6

NameChars == {"r", ".", "d", "D", "o", "c", "x"}

Names == Filenames \cup UNION {[1..n -> NameChars] : n \in 0..MaxNameLen}

\* texts converted twice
MaxPairLen == 3

PairTexts == UNION {[1..n -> Chars] : n \in 0..MaxPairLen}

-----------------------------------------------------------------------------
(* Python's string operations *)

Whitespace == {" ", "\t", "\n", "\r"}

RECURSIVE LStripSet(_, _)
LStripSet(s, set) ==
    IF s = <<>> THEN s
    ELSE IF Head(s) \in set THEN LStripSet(Tail(s), set) ELSE s

RECURSIVE RStripSet(_, _)
RStripSet(s, set) ==
    IF s = <<>> THEN s
    ELSE IF s[Len(s)] \in set THEN RStripSet(SubSeq(s, 1, Len(s) - 1), set) ELSE s

\* str.strip()
Strip(s) == RStripSet(LStripSet(s, Whitespace), Whitespace)

\* str.startswith(p)
StartsWith(s, p) == Len(s) >= Len(p) /\ SubSeq(s, 1, Len(p)) = p

\* str.endswith(p)
EndsWith(s, p) == Len(s) >= Len(p) /\ SubSeq(s, Len(s) - Len(p) + 1, Len(s)) = p

\* the part of s before the first occurrence of c (all of s when there is none)
RECURSIVE UpTo(_, _)
UpTo(s, c) ==
    IF s = <<>> \/ Head(s) = c THEN <<>> ELSE <<Head(s)>> \o UpTo(Tail(s), c)

\* str.split(c) for a one-character separator
RECURSIVE Split(_, _)
Split(s, c) ==
    LET first == UpTo(s, c)
    IN  IF Len(first) = Len(s) THEN <<s>>
        ELSE <<first>> \o Split(SubSeq(s, Len(first) + 2, Len(s)), c)

LowerChar(c) ==
    CASE c = "D" -> "d"
      [] c = "O" -> "o"
      [] c = "C" -> "c"
      [] c = "X" -> "x"
      [] c = "R" -> "r"
      [] OTHER -> c

\* str.lower()
Lower(s) == [i \in 1..Len(s) |-> LowerChar(s[i])]

-----------------------------------------------------------------------------
(* ensure_docx_extension *)

DotDocx == <<".", "d", "o", "c", "x">>

\* faulty variant: the extension is tested in the case it is written in
ensure_docx_extension_cased(f) ==
    IF ~EndsWith(f, DotDocx) THEN f \o DotDocx ELSE f

ensure_docx_extension(f) ==
    IF ~EndsWith(Lower(f), DotDocx) THEN f \o DotDocx ELSE f

-----------------------------------------------------------------------------
(* The outcome strings (lines 41, 56, 100, 102) *)

InitFailureMessage(cause) ==
    <<"E", "r", "r", "o", "r", ":", " ",
      "F", "a", "i", "l", "e", "d", " ", "t", "o", " ",
      "i", "n", "i", "t", "i", "a", "l", "i", "z", "e", " ",
      "M", "C", "P", " ", "s", "e", "s", "s", "i", "o", "n", ":", " ">> \o cause

\* faulty variant: the create failure is reported without the "Error: " prefix
CreateFailureMessageBare(cause) ==
    <<"F", "a", "i", "l", "e", "d", " ", "t", "o", " ",
      "c", "r", "e", "a", "t", "e", " ",
      "d", "o", "c", "u", "m", "e", "n", "t", ":", " ">> \o cause

CreateFailureMessage(cause) ==
    <<"E", "r", "r", "o", "r", ":", " ",
      "F", "a", "i", "l", "e", "d", " ", "t", "o", " ",
      "c", "r", "e", "a", "t", "e", " ",
      "d", "o", "c", "u", "m", "e", "n", "t", ":", " ">> \o cause

ContentFailureMessage(cause) ==
    <<"E", "r", "r", "o", "r", ":", " ",
      "F", "a", "i", "l", "e", "d", " ", "t", "o", " ",
      "a", "d", "d", " ", "c", "o", "n", "t", "e", "n", "t", ":", " ">> \o cause

\* faulty variant: the filename is not quoted
SuccessMessageUnquoted(f) ==
    <<"D", "o", "c", "u", "m", "e", "n", "t", " ">> \o f \o
    <<" ", "c", "r", "e", "a", "t", "e", "d", " ",
      "s", "u", "c", "c", "e", "s", "s", "f", "u", "l", "l", "y">>

SuccessMessage(f) ==
    <<"D", "o", "c", "u", "m", "e", "n", "t", " ", "'">> \o f \o
    <<"'", " ", "c", "r", "e", "a", "t", "e", "d", " ",
      "s", "u", "c", "c", "e", "s", "s", "f", "u", "l", "l", "y">>

-----------------------------------------------------------------------------
(* The requests of call_tool *)

\* initialize() has not ended
NoResult == [kind |-> "none"]

Pending == [kind |-> "pending"]

Ok == [kind |-> "ok"]

\* the service answers with a result whose isError flag is set
ErrorResult(cause) == [kind |-> "error", cause |-> cause]

\* call_tool raises
Raised(cause) == [kind |-> "raise", cause |-> cause]

\* faulty variant: the extension is appended once more for create_document
CreateRequestRenamed(f, t, a) ==
    [tool |-> "create_document",
     args |-> [filename |-> f \o <<".", "d", "o", "c", "x">>, title |-> t,
               author |-> a]]

\* document_input and the create_document request (lines 44-50)
CreateRequest(f, t, a) ==
    [tool |-> "create_document",
     args |-> [filename |-> f, title |-> t, author |-> a]]

\* the bullet character of line 84, one character (named by its code point:
\* a string of the module holds ASCII only)
Bullet == "U+2022"

\* level = len(line.split(" ")[0])  (line 68)
HeadingLevel(line) == Len(Split(line, " ")[1])

\* text = line.lstrip("# ").strip()  (line 69)
HeadingText(line) == Strip(LStripSet(line, {"#", " "}))

\* text = line[2:].strip()  (line 81)
ListItemText(line) == Strip(SubSeq(line, 3, Len(line)))

\* faulty variant: line 74 is not commented out: add_heading is passed style_file
LineRequestStyled(line, f) ==
    IF StartsWith(line, <<"#">>)
    THEN [tool |-> "add_heading",
          args |-> [filename |-> f, text |-> HeadingText(line),
                    level |-> HeadingLevel(line), style_file |-> style_file]]
    ELSE IF StartsWith(line, <<"-", " ">>) \/ StartsWith(line, <<"*", " ">>)
    THEN [tool |-> "add_paragraph",
          args |-> [filename |-> f, text |-> <<Bullet, " ">> \o ListItemText(line),
                    style |-> "ListBullet"]]
    ELSE [tool |-> "add_paragraph",
          args |-> [filename |-> f, text |-> line, style |-> "Normal"]]

\* faulty variant: only the "- " marker is recognized
LineRequestDashOnly(line, f) ==
    IF StartsWith(line, <<"#">>)
    THEN [tool |-> "add_heading",
          args |-> [filename |-> f, text |-> HeadingText(line),
                    level |-> HeadingLevel(line)]]
    ELSE IF StartsWith(line, <<"-", " ">>)
    THEN [tool |-> "add_paragraph",
          args |-> [filename |-> f, text |-> <<Bullet, " ">> \o ListItemText(line),
                    style |-> "ListBullet"]]
    ELSE [tool |-> "add_paragraph",
          args |-> [filename |-> f, text |-> line, style |-> "Normal"]]

\* the request one stripped, non-empty line is dispatched as (lines 66-96)
LineRequest(line, f) ==
    IF StartsWith(line, <<"#">>)
    THEN [tool |-> "add_heading",
          args |-> [filename |-> f, text |-> HeadingText(line),
                    level |-> HeadingLevel(line)]]
    ELSE IF StartsWith(line, <<"-", " ">>) \/ StartsWith(line, <<"*", " ">>)
    THEN [tool |-> "add_paragraph",
          args |-> [filename |-> f, text |-> <<Bullet, " ">> \o ListItemText(line),
                    style |-> "ListBullet"]]
    ELSE [tool |-> "add_paragraph",
          args |-> [filename |-> f, text |-> line, style |-> "Normal"]]

\* a request as issued: its response is pending
Issued(req) == [tool |-> req.tool, args |-> req.args, res |-> Pending]

\* the log with the response to the call in flight (the last one) recorded
Answered(log, res) == [log EXCEPT ![Len(log)].res = res]

\* the request of a logged call
RequestOf(call) == [tool |-> call.tool, args |-> call.args]

-----------------------------------------------------------------------------
(* The caller *)

\* style_file: Optional[str] = None  (line 14): no path, or one path
NoStyle == <<>>

StyleFiles == {NoStyle, << <<"s">> >>}

\* a caller that passes these arguments and has seen no conversion end yet
CallerWith(text, f, t, a, style) ==
    [given |-> [markdown_text |-> text, filename |-> f, title |-> t,
                author |-> a, style_file |-> style],
     earlier |-> <<>>]

-----------------------------------------------------------------------------
(* process_markdown_to_doc *)

Init ==
    /\ markdown_text \in Texts
    /\ filename \in Filenames
    /\ title \in Titles
    /\ author \in Authors
    /\ style_file = NoStyle
    /\ caller = CallerWith(markdown_text, filename, title, author, style_file)
    /\ pc = "start"
    /\ session = None
    /\ initResult = NoResult
    /\ lines = <<>>
    /\ idx = 0
    /\ calls = <<>>
    /\ doc = <<>>
    /\ returned = <<>>
    /\ escaped = <<>>

\* filename = ensure_docx_extension(filename)  (line 30)
Normalize ==
    /\ pc = "start"
    /\ filename' = ensure_docx_extension(filename)
    /\ pc' = "connect"
    /\ UNCHANGED <<style_file, caller, markdown_text, title, author, session, initResult, lines,
                   idx, calls, doc, returned, escaped>>

\* the two async with statements are entered (lines 33-34)
Acquire ==
    /\ pc = "connect"
    /\ session' = "Unopened"
    /\ pc' = "init"
    /\ UNCHANGED <<style_file, caller, markdown_text, filename, title, author, initResult, lines,
                   idx, calls, doc, returned, escaped>>

\* entering an async with statement raises: no handler encloses lines 33-34
AcquireRaises ==
    /\ pc = "connect"
    /\ \E cause \in Causes : escaped' = <<cause>>
    /\ pc' = "done"
    /\ UNCHANGED <<style_file, caller, markdown_text, filename, title, author, session, initResult,
                   lines, idx, calls, doc, returned>>

\* await session.initialize() returns (lines 37-38)
InitializeOk ==
    /\ pc = "init"
    /\ session' = "Initialized"
    /\ initResult' = Ok
    /\ pc' = "create"
    /\ UNCHANGED <<style_file, caller, markdown_text, filename, title, author, lines, idx, calls,
                   doc, returned, escaped>>

\* faulty variant: the failure of initialize() is recorded and the conversion goes on
InitializeRaisesContinue ==
    /\ pc = "init"
    /\ \E cause \in Causes : initResult' = Raised(cause)
    /\ pc' = "create"
    /\ UNCHANGED <<style_file, caller, markdown_text, filename, title, author, session, lines, idx,
                   calls, doc, returned, escaped>>

\* await session.initialize() raises (lines 39-41)
InitializeRaises ==
    /\ pc = "init"
    /\ \E cause \in Causes :
          /\ initResult' = Raised(cause)
          /\ returned' = <<InitFailureMessage(cause)>>
    /\ pc' = "exit"
    /\ UNCHANGED <<style_file, caller, markdown_text, filename, title, author, session, lines, idx,
                   calls, doc, escaped>>

\* faulty variant: the create_document request is sent twice
CreateCallTwice ==
    /\ pc = "create"
    /\ calls' = calls \o <<Issued(CreateRequest(filename, title, author)),
                            Issued(CreateRequest(filename, title, author))>>
    /\ pc' = "create_wait"
    /\ UNCHANGED <<style_file, caller, markdown_text, filename, title, author, session, initResult,
                   lines, idx, doc, returned, escaped>>

\* session.call_tool("create_document", document_input) is issued (lines 44-50)
CreateCall ==
    /\ pc = "create"
    /\ calls' = Append(calls, Issued(CreateRequest(filename, title, author)))
    /\ pc' = "create_wait"
    /\ UNCHANGED <<style_file, caller, markdown_text, filename, title, author, session, initResult,
                   lines, idx, doc, returned, escaped>>

\* lines = markdown_text.split("\n") and the loop is entered (lines 59-60)
EnterLoop ==
    /\ lines' = Split(markdown_text, "\n")
    /\ idx' = 1
    /\ pc' = "loop"

\* create_document returns a result (lines 50-53, 59)
CreateOk ==
    /\ pc = "create_wait"
    /\ calls' = Answered(calls, Ok)
    /\ doc' = Append(doc, RequestOf(calls[Len(calls)]))
    /\ EnterLoop
    /\ UNCHANGED <<style_file, caller, markdown_text, filename, title, author, session, initResult,
                   returned, escaped>>

\* create_document returns a result that says isError: the result is only logged
\* and printed (lines 50-53, 59)
CreateError ==
    /\ pc = "create_wait"
    /\ \E cause \in ErrorCauses : calls' = Answered(calls, ErrorResult(cause))
    /\ EnterLoop
    /\ UNCHANGED <<style_file, caller, markdown_text, filename, title, author, session, initResult,
                   doc, returned, escaped>>

\* faulty variant: the exception of create_document is swallowed and the loop entered
CreateRaisesContinue ==
    /\ pc = "create_wait"
    /\ \E cause \in Causes : calls' = Answered(calls, Raised(cause))
    /\ EnterLoop
    /\ UNCHANGED <<style_file, caller, markdown_text, filename, title, author, session, initResult,
                   doc, returned, escaped>>

\* create_document raises (lines 54-56)
CreateRaises ==
    /\ pc = "create_wait"
    /\ \E cause \in Causes :
          /\ calls' = Answered(calls, Raised(cause))
          /\ returned' = <<CreateFailureMessage(cause)>>
    /\ pc' = "exit"
    /\ UNCHANGED <<style_file, caller, markdown_text, filename, title, author, session, initResult,
                   lines, idx, doc, escaped>>

\* faulty variant: the line is tested before it is stripped
IsBlankNoStrip(line) == line = <<>>

\* line = line.strip(); if not line  (lines 61-62)
IsBlank(line) == Strip(line) = <<>>

\* a blank line: continue  (lines 60-63)
SkipBlank ==
    /\ pc = "loop"
    /\ idx <= Len(lines)
    /\ IsBlank(lines[idx])
    /\ idx' = idx + 1
    /\ UNCHANGED <<style_file, caller, markdown_text, filename, title, author, pc, session,
                   initResult, lines, calls, doc, returned, escaped>>

\* faulty variant: the line is dispatched as read, not stripped
DispatchLineUnstripped ==
    /\ pc = "loop"
    /\ idx <= Len(lines)
    /\ ~IsBlank(lines[idx])
    /\ calls' = Append(calls, Issued(LineRequest(lines[idx], filename)))
    /\ pc' = "line_wait"
    /\ UNCHANGED <<style_file, caller, markdown_text, filename, title, author, session, initResult,
                   lines, idx, doc, returned, escaped>>

\* a non-empty line is dispatched: one call_tool is issued (lines 60-96)
DispatchLine ==
    /\ pc = "loop"
    /\ idx <= Len(lines)
    /\ ~IsBlank(lines[idx])
    /\ calls' = Append(calls, Issued(LineRequest(Strip(lines[idx]), filename)))
    /\ pc' = "line_wait"
    /\ UNCHANGED <<style_file, caller, markdown_text, filename, title, author, session, initResult,
                   lines, idx, doc, returned, escaped>>

\* the per-line call returns a result; the loop goes on (lines 70-96)
LineOk ==
    /\ pc = "line_wait"
    /\ calls' = Answered(calls, Ok)
    /\ doc' = Append(doc, RequestOf(calls[Len(calls)]))
    /\ idx' = idx + 1
    /\ pc' = "loop"
    /\ UNCHANGED <<style_file, caller, markdown_text, filename, title, author, session, initResult,
                   lines, returned, escaped>>

\* the per-line call returns a result that says isError: the result is only
\* logged, and the loop goes on (lines 70-96)
LineError ==
    /\ pc = "line_wait"
    /\ \E cause \in ErrorCauses : calls' = Answered(calls, ErrorResult(cause))
    /\ idx' = idx + 1
    /\ pc' = "loop"
    /\ UNCHANGED <<style_file, caller, markdown_text, filename, title, author, session, initResult,
                   lines, doc, returned, escaped>>

\* faulty variant: the exception of a per-line call is swallowed and the loop goes on
LineRaisesContinue ==
    /\ pc = "line_wait"
    /\ \E cause \in Causes : calls' = Answered(calls, Raised(cause))
    /\ idx' = idx + 1
    /\ pc' = "loop"
    /\ UNCHANGED <<style_file, caller, markdown_text, filename, title, author, session, initResult,
                   lines, doc, returned, escaped>>

\* the per-line call raises (lines 98-100)
LineRaises ==
    /\ pc = "line_wait"
    /\ \E cause \in Causes :
          /\ calls' = Answered(calls, Raised(cause))
          /\ returned' = <<ContentFailureMessage(cause)>>
    /\ pc' = "exit"
    /\ UNCHANGED <<style_file, caller, markdown_text, filename, title, author, session, initResult,
                   lines, idx, doc, escaped>>

\* the loop is exhausted (line 102)
Finish ==
    /\ pc = "loop"
    /\ idx > Len(lines)
    /\ returned' = <<SuccessMessage(filename)>>
    /\ pc' = "exit"
    /\ UNCHANGED <<style_file, caller, markdown_text, filename, title, author, session, initResult,
                   lines, idx, calls, doc, escaped>>

\* faulty variant: the session is closed on the success path only
ReleaseOnSuccessOnly ==
    /\ pc = "exit"
    /\ session' = IF StartsWith(returned[1], <<"E">>) THEN session ELSE "Closed"
    /\ pc' = "done"
    /\ UNCHANGED <<style_file, caller, markdown_text, filename, title, author, initResult, lines,
                   idx, calls, doc, returned, escaped>>

\* a return statement leaves both async with blocks (lines 33-34)
Release ==
    /\ pc = "exit"
    /\ session' = "Closed"
    /\ pc' = "done"
    /\ UNCHANGED <<style_file, caller, markdown_text, filename, title, author, initResult, lines,
                   idx, calls, doc, returned, escaped>>

Next ==
    \/ Normalize
    \/ Acquire
    \/ AcquireRaises
    \/ InitializeOk
    \/ InitializeRaises
    \/ CreateCall
    \/ CreateOk
    \/ CreateError
    \/ CreateRaises
    \/ SkipBlank
    \/ DispatchLine
    \/ LineOk
    \/ LineError
    \/ LineRaises
    \/ Finish
    \/ Release

Spec == Init /\ [][Next]_vars

\* conversions of a one-line text
InitLine ==
    /\ markdown_text \in OneLineTexts
    /\ filename \in Filenames
    /\ title \in Titles
    /\ author \in Authors
    /\ style_file = NoStyle
    /\ caller = CallerWith(markdown_text, filename, title, author, style_file)
    /\ pc = "start"
    /\ session = None
    /\ initResult = NoResult
    /\ lines = <<>>
    /\ idx = 0
    /\ calls = <<>>
    /\ doc = <<>>
    /\ returned = <<>>
    /\ escaped = <<>>

SpecLine == InitLine /\ [][Next]_vars

\* the normalization of a filename alone (line 30)
InitName ==
    /\ markdown_text = <<>>
    /\ filename \in Names
    /\ title \in Titles
    /\ author \in Authors
    /\ style_file = NoStyle
    /\ caller = CallerWith(markdown_text, filename, title, author, style_file)
    /\ pc = "start"
    /\ session = None
    /\ initResult = NoResult
    /\ lines = <<>>
    /\ idx = 0
    /\ calls = <<>>
    /\ doc = <<>>
    /\ returned = <<>>
    /\ escaped = <<>>

NextName == Normalize

SpecName == InitName /\ [][NextName]_vars

\* two conversions that differ in style_file only
InitPair ==
    /\ markdown_text \in PairTexts
    /\ filename \in Filenames
    /\ title \in Titles
    /\ author \in Authors
    /\ style_file \in StyleFiles
    /\ caller = CallerWith(markdown_text, filename, title, author, style_file)
    /\ pc = "start"
    /\ session = None
    /\ initResult = NoResult
    /\ lines = <<>>
    /\ idx = 0
    /\ calls = <<>>
    /\ doc = <<>>
    /\ returned = <<>>
    /\ escaped = <<>>

\* what the caller has seen of a conversion that is over
Seen ==
    [given |-> caller.given, initResult |-> initResult, calls |-> calls,
     returned |-> returned, escaped |-> escaped]

\* the caller calls process_markdown_to_doc again, with another style_file and
\* the other arguments as before, against a service with no document yet
SecondConversion ==
    /\ pc = "done"
    /\ caller.earlier = <<>>
    /\ \E style \in StyleFiles \ {caller.given.style_file} :
          /\ style_file' = style
          /\ caller' = [given |-> [caller.given EXCEPT !.style_file = style],
                        earlier |-> <<Seen>>]
    /\ markdown_text' = caller.given.markdown_text
    /\ filename' = caller.given.filename
    /\ title' = caller.given.title
    /\ author' = caller.given.author
    /\ pc' = "start"
    /\ session' = None
    /\ initResult' = NoResult
    /\ lines' = <<>>
    /\ idx' = 0
    /\ calls' = <<>>
    /\ doc' = <<>>
    /\ returned' = <<>>
    /\ escaped' = <<>>

NextPair ==
    \/ Next
    \/ SecondConversion

SpecPair == InitPair /\ [][NextPair]_vars

\* the event loop runs the coroutine, and every awaited call returns or raises
FairSpec == Spec /\ WF_vars(Next)

-----------------------------------------------------------------------------
(* Vocabulary of the properties *)

ErrorPrefix == <<"E", "r", "r", "o", "r", ":", " ">>

CreatePhase ==
    <<"F", "a", "i", "l", "e", "d", " ", "t", "o", " ",
      "c", "r", "e", "a", "t", "e", " ",
      "d", "o", "c", "u", "m", "e", "n", "t", ":", " ">>

\* the conversion has returned a Failure that carries cause
FailureCarrying(cause) ==
    /\ Len(returned) = 1
    /\ StartsWith(returned[1], ErrorPrefix)
    /\ EndsWith(returned[1], cause)

IsPerLine(call) == call.tool \in {"add_heading", "add_paragraph"}

PerLineCalls == SelectSeq(calls, IsPerLine)

Ended == pc \in {"exit", "done"}

\* the positions of markdown_text that hold the first non-whitespace character
\* of a line: one per non-blank line
FirstInkOfLine(t) ==
    {j \in 1..Len(t) :
        /\ t[j] \notin Whitespace
        /\ \A k \in 1..(j - 1) :
              (\A m \in k..(j - 1) : t[m] # "\n") => t[k] \in Whitespace}

NonBlankCount(t) == Cardinality(FirstInkOfLine(t))

-----------------------------------------------------------------------------
C4_CallsOnlyWhileInitialized ==
    /\ [][calls' # calls => (session = "Initialized" /\ session' = "Initialized")]_vars
    /\ [](initResult.kind = "raise"
            => /\ calls = <<>>
               /\ Ended
               /\ FailureCarrying(initResult.cause))

C4_Witness ==
    /\ pc = "done"
    /\ initResult.kind = "raise"
    /\ calls = <<>>
    /\ session = "Closed"

(* C2: at every point the content applied to the remote document is the   *)
(* units of a prefix of the input's non-blank lines, in line order; when   *)
(* the conversion ends in Failure because the call for the k-th non-blank  *)
(* line failed, the document holds exactly the first k-1 units.            *)
NonBlank(line) == ~IsBlank(line)

Units ==
    LET nb == SelectSeq(Split(markdown_text, "\n"), NonBlank)
    IN  [i \in 1..Len(nb) |-> LineRequest(Strip(nb[i]), filename)]

Applied == SelectSeq(doc, IsPerLine)

C2_AppliedIsPrefix ==
    /\ Len(Applied) <= Len(Units)
    /\ \A i \in 1..Len(Applied) : Applied[i] = Units[i]
    /\ (/\ Ended
        /\ Len(PerLineCalls) >= 1
        /\ PerLineCalls[Len(PerLineCalls)].res.kind = "raise")
          => Len(Applied) = Len(PerLineCalls) - 1

(* C5: an acquired session is eventually released on every exit path, the  *)
(* conversion then being over with exactly one value returned; a value     *)
(* once returned is never replaced.                                        *)
C5_SessionReleased ==
    /\ (session \in {"Unopened", "Initialized"})
          ~> (session = "Closed" /\ pc = "done" /\ Len(returned) = 1)
    /\ [][returned # <<>> => returned' = returned]_vars

C5_Witness ==
    /\ pc = "done"
    /\ session = "Closed"
    /\ Len(returned) = 1
    /\ Len(calls) = 1
    /\ calls[1].res.kind = "raise"

(* C6: every failure of the external session, the scoped acquisition of    *)
(* transport and session included, ends as a returned Failure string; none *)
(* leaves process_markdown_to_doc as an uncaught exception.                *)
C6_NoFailureEscapes ==
    /\ escaped = <<>>
    /\ pc = "done" => Len(returned) = 1

(* C7: a tool call answered with an application-level error result is      *)
(* treated like one that raised: it is the last call of the conversion,    *)
(* which ends with a Failure carrying the cause (never with Success).      *)
C7_ApplicationErrorStops ==
    \A i \in 1..Len(calls) :
        calls[i].res.kind = "error"
           => /\ i = Len(calls)
              /\ Ended
              /\ FailureCarrying(calls[i].res.cause)

(* C8: create_document is never issued more than once; it is the first     *)
(* tool call and has completed before any add_heading or add_paragraph is  *)
(* issued; a conversion whose initialize succeeded has issued it exactly   *)
(* once when it ends.                                                      *)
CreateCalls == SelectSeq(calls, LAMBDA c : c.tool = "create_document")

C8_CreateOnceAndFirst ==
    /\ Len(CreateCalls) <= 1
    /\ \A i \in 1..Len(calls) :
          IsPerLine(calls[i])
             => /\ i > 1
                /\ calls[1].tool = "create_document"
                /\ calls[1].res # Pending
    /\ (initResult = Ok /\ Ended) => Len(CreateCalls) = 1

C8_Witness ==
    /\ pc = "done"
    /\ initResult = Ok
    /\ Len(CreateCalls) = 1
    /\ Len(PerLineCalls) = 2

(* C9: a value returned on a failure path (initialize, create or content   *)
(* phase) begins with "Error: ", and the value returned on the success     *)
(* path does not.                                                          *)
FailurePath ==
    \/ initResult.kind = "raise"
    \/ \E i \in 1..Len(calls) : calls[i].res.kind = "raise"

C9_ErrorPrefixDistinguishes ==
    \A k \in 1..Len(returned) :
        StartsWith(returned[k], ErrorPrefix) <=> FailurePath

C9_Witness ==
    /\ pc = "done"
    /\ Len(returned) = 1
    /\ Len(PerLineCalls) = 1
    /\ PerLineCalls[1].res.kind = "raise"
    /\ StartsWith(returned[1], ErrorPrefix)

(* C10: in a conversion where no call fails, there is one create_document  *)
(* call and then one per-line call for each non-blank input line (none for *)
(* a blank or whitespace-only line) and Success is returned; "#### " is    *)
(* dispatched as add_heading with level 4 and empty text.                  *)
NoCallFailed ==
    /\ initResult = Ok
    /\ \A i \in 1..Len(calls) : calls[i].res.kind = "ok"

C10_OneCallPerNonBlankLine ==
    (Ended /\ NoCallFailed)
       => /\ Len(calls) = 1 + NonBlankCount(markdown_text)
          /\ calls[1].tool = "create_document"
          /\ \A i \in 2..Len(calls) : IsPerLine(calls[i])
          /\ Len(returned) = 1
          /\ ~StartsWith(returned[1], ErrorPrefix)
          /\ markdown_text = <<"#", "#", "#", "#", " ">>
                => RequestOf(calls[2]) =
                      [tool |-> "add_heading",
                       args |-> [filename |-> filename, text |-> <<>>, level |-> 4]]

C10_Witness ==
    /\ pc = "done"
    /\ NoCallFailed
    /\ markdown_text = <<"#", "#", "#", "#", " ">>
    /\ Len(calls) = 2
    /\ calls[2].tool = "add_heading"

(* C11: every tool call of a conversion carries the same filename: the     *)
(* input filename as normalized once by ensure_docx_extension, before the  *)
(* first remote call; the filename never changes afterwards.               *)
C11_SameFilenameEveryCall ==
    /\ [][pc = "start" => filename' = ensure_docx_extension(filename)]_vars
    /\ [][pc # "start" => filename' = filename]_vars
    /\ [](pc = "start" => calls = <<>>)
    /\ [](\A i \in 1..Len(calls) : calls[i].args.filename = filename)

C11_Witness ==
    /\ pc = "done"
    /\ Len(calls) = 3
    /\ filename = <<"r", ".", "d", "o", "c", "x">>
    /\ \A i \in 1..3 : calls[i].args.filename = filename

-----------------------------------------------------------------------------
(* The dispatch of one line, under SpecLine: the text is one line, and the *)
(* only per-line call is the one for that line, trimmed.                   *)

\* the trimmed line: from the first to the last non-whitespace character
TrimmedLine ==
    LET t == markdown_text
        ink == {j \in 1..Len(t) : t[j] \notin Whitespace}
    IN  IF ink = {} THEN <<>>
        ELSE SubSeq(t, CHOOSE j \in ink : \A k \in ink : j <= k,
                       CHOOSE j \in ink : \A k \in ink : j >= k)

\* the length of the run of '#' that s begins with
LeadingHashes(s) ==
    Cardinality({j \in 1..Len(s) : \A k \in 1..j : s[k] = "#"})

\* s from position n on, without the whitespace it begins with
RECURSIVE AfterSeparator(_, _)
AfterSeparator(s, n) ==
    IF n <= Len(s) /\ s[n] \in Whitespace THEN AfterSeparator(s, n + 1)
    ELSE SubSeq(s, n, Len(s))

(* C12: for a line dispatched as add_heading, the level argument is the    *)
(* number of consecutive '#' characters the trimmed line begins with.      *)
C12_LevelIsHashCount ==
    \A i \in 1..Len(PerLineCalls) :
        PerLineCalls[i].tool = "add_heading"
           => PerLineCalls[i].args.level = LeadingHashes(TrimmedLine)

(* C13: a trimmed line is dispatched as a heading only when its leading    *)
(* run of '#' is followed by a separator (or ends the line); a line whose  *)
(* '#' run is followed directly by other text is dispatched as             *)
(* add_paragraph with the trimmed line as text and style "Normal".         *)
HashRunSeparated(s) ==
    LET n == LeadingHashes(s)
    IN  n >= 1 /\ (n = Len(s) \/ s[n + 1] \in Whitespace)

C13_HeadingNeedsSeparator ==
    \A i \in 1..Len(PerLineCalls) :
        /\ PerLineCalls[i].tool = "add_heading" => HashRunSeparated(TrimmedLine)
        /\ (LeadingHashes(TrimmedLine) >= 1 /\ ~HashRunSeparated(TrimmedLine))
              => RequestOf(PerLineCalls[i]) =
                    [tool |-> "add_paragraph",
                     args |-> [filename |-> filename, text |-> TrimmedLine,
                               style |-> "Normal"]]

(* C14: the text argument of add_heading is the trimmed line without its   *)
(* leading run of '#' and the separator whitespace after it; what follows  *)
(* is kept unchanged, also when it begins with '#'.                        *)
C14_HeadingTextKeepsRemainder ==
    \A i \in 1..Len(PerLineCalls) :
        PerLineCalls[i].tool = "add_heading"
           => PerLineCalls[i].args.text =
                 AfterSeparator(TrimmedLine, LeadingHashes(TrimmedLine) + 1)

(* C15: a trimmed line that starts with "- " or "* " results in exactly one *)
(* add_paragraph call, with style "ListBullet" and as text the bullet, a   *)
(* space, and the trimmed remainder after the 2-character marker (so that  *)
(* both markers give the same call); a line that starts with '#' is never  *)
(* dispatched as a list item.                                              *)
IsListLine(s) ==
    /\ Len(s) >= 2
    /\ s[1] \in {"-", "*"}
    /\ s[2] = " "

C15_ListItemDispatch ==
    /\ (IsListLine(TrimmedLine) /\ Len(PerLineCalls) >= 1)
          => /\ Len(PerLineCalls) = 1
             /\ RequestOf(PerLineCalls[1]) =
                   [tool |-> "add_paragraph",
                    args |-> [filename |-> filename,
                              text |-> <<Bullet, " ">> \o AfterSeparator(TrimmedLine, 3),
                              style |-> "ListBullet"]]
    /\ (IsListLine(TrimmedLine) /\ pc \in {"line_wait", "exit", "done"}
          /\ Len(calls) >= 1 /\ calls[1].res.kind \in {"ok", "error"})
          => Len(PerLineCalls) = 1
    /\ \A i \in 1..Len(PerLineCalls) :
          (Len(TrimmedLine) >= 1 /\ TrimmedLine[1] = "#")
             => PerLineCalls[i].tool = "add_heading"

C15_Witness ==
    /\ pc = "done"
    /\ markdown_text = <<" ", "*", " ", " ", "a">>
    /\ Len(PerLineCalls) = 1
    /\ PerLineCalls[1].args.text = <<Bullet, " ", "a">>
    /\ PerLineCalls[1].args.style = "ListBullet"
    /\ PerLineCalls[1].res.kind = "ok"

(* C19: no bullet call carries an empty item: a line that is only a list   *)
(* marker ("-", "- ", "*", "* ", with any surrounding whitespace) is       *)
(* dispatched as a "Normal" paragraph whose text is the bare marker, and   *)
(* the text of every "ListBullet" call is the bullet, a space, and a       *)
(* non-empty string with no leading or trailing whitespace.                *)
C19_NoEmptyBullet ==
    \A i \in 1..Len(PerLineCalls) :
        /\ TrimmedLine \in {<<"-">>, <<"*">>}
              => RequestOf(PerLineCalls[i]) =
                    [tool |-> "add_paragraph",
                     args |-> [filename |-> filename, text |-> TrimmedLine,
                               style |-> "Normal"]]
        /\ (/\ PerLineCalls[i].tool = "add_paragraph"
            /\ PerLineCalls[i].args.style = "ListBullet")
              => LET text == PerLineCalls[i].args.text
                 IN  /\ Len(text) >= 3
                     /\ text[1] = Bullet
                     /\ text[2] = " "
                     /\ text[3] \notin Whitespace
                     /\ text[Len(text)] \notin Whitespace

C19_Witness ==
    /\ pc = "done"
    /\ markdown_text = <<" ", "-", " ">>
    /\ Len(PerLineCalls) = 1
    /\ PerLineCalls[1].args.text = <<"-">>
    /\ PerLineCalls[1].args.style = "Normal"

(* C16: ensure_docx_extension is idempotent and tests the extension        *)
(* whatever its case: a name whose lowercase form ends in ".docx" is kept  *)
(* as it is ("r.DOCX" stays "r.DOCX"), any other name gets ".docx"         *)
(* appended to the original string, and normalizing the result again       *)
(* changes nothing.                                                        *)
HasDocxExtension(f) ==
    /\ Len(f) >= 5
    /\ f[Len(f) - 4] = "."
    /\ f[Len(f) - 3] \in {"d", "D"}
    /\ f[Len(f) - 2] \in {"o", "O"}
    /\ f[Len(f) - 1] \in {"c", "C"}
    /\ f[Len(f)] \in {"x", "X"}

C16_NormalizeIdempotent ==
    [][pc = "start"
         => /\ HasDocxExtension(filename) => filename' = filename
            /\ ~HasDocxExtension(filename)
                  => filename' = filename \o <<".", "d", "o", "c", "x">>
            /\ ensure_docx_extension(filename') = filename']_vars

C16_Witness ==
    /\ pc = "connect"
    /\ filename = <<"r", ".", "D", "o", "c", "x">>

(* C17: when initialize, create_document and every per-line call succeed   *)
(* (the zero-lines case included), the returned string is exactly          *)
(* Document '<filename>' created successfully, with the normalized         *)
(* filename.                                                               *)
CreatedSuccessfully ==
    <<"'", " ", "c", "r", "e", "a", "t", "e", "d", " ",
      "s", "u", "c", "c", "e", "s", "s", "f", "u", "l", "l", "y">>

C17_SuccessString ==
    (Ended /\ NoCallFailed)
       => /\ HasDocxExtension(filename)
          /\ returned =
                << <<"D", "o", "c", "u", "m", "e", "n", "t", " ", "'">>
                      \o filename \o CreatedSuccessfully >>

\* the statement with the string as the specification writes it: document '...
C17_SuccessStringLowercase ==
    (Ended /\ NoCallFailed)
       => returned =
             << <<"d", "o", "c", "u", "m", "e", "n", "t", " ", "'">>
                   \o filename \o CreatedSuccessfully >>

C17_Witness ==
    /\ pc = "done"
    /\ NoCallFailed
    /\ markdown_text = <<>>
    /\ Len(calls) = 1
    /\ filename = <<"r", ".", "d", "o", "c", "x">>
    /\ Len(returned) = 1

(* C18: style_file is inert: of two conversions that differ in style_file  *)
(* only and whose services answer in the same way, the second issues the   *)
(* same tool calls with the same arguments as the first, in the same       *)
(* order, and returns the same outcome.                                    *)

\* so far the session and the service have answered the conversion under way
\* as they answered the earlier one
AnsweredAs(e) ==
    /\ pc \notin {"start", "connect"} => escaped = e.escaped
    /\ initResult # NoResult => initResult = e.initResult
    /\ \A i \in 1..Len(calls) :
          (i <= Len(e.calls) /\ calls[i].res # Pending)
             => calls[i].res = e.calls[i].res

C18_StyleFileInert ==
    \A e \in {caller.earlier[k] : k \in 1..Len(caller.earlier)} :
        AnsweredAs(e)
           => /\ Len(calls) <= Len(e.calls)
              /\ \A i \in 1..Len(calls) : RequestOf(calls[i]) = RequestOf(e.calls[i])
              /\ Len(returned) = 1 => returned = e.returned
              /\ pc = "done" => (calls = e.calls /\ returned = e.returned)

C18_Witness ==
    /\ pc = "done"
    /\ Len(caller.earlier) = 1
    /\ caller.earlier[1].given.style_file # style_file
    /\ LET e == caller.earlier[1]
       IN  /\ Len(e.calls) = 2
           /\ e.calls[2].tool = "add_heading"
           /\ e.calls[2].res.kind = "raise"
           /\ calls = e.calls
           /\ returned = e.returned
           /\ Len(returned) = 1

=============================================================================
